---- MODULE Spec2Model ----
(***************************************************************************)
(* Model of the Postgres schema migration runner and the tag backfill of   *)
(* nostr-rs-relay (src/repo/postgres_migration.rs), and of the relay       *)
(* information document (src/info.rs).                                     *)
(*                                                                         *)
(* The committed database is the ledger table "migrations", the schema     *)
(* objects created by the migrations' statements, the event table and the  *)
(* tag table.  An upgrader is a process walking run_migrations; every      *)
(* database call is one step that may succeed or fail, and the process may *)
(* crash at any point.  Work done inside an open transaction lives in the  *)
(* tx* / updTag variables and reaches the committed state on commit only.  *)
(* Spec, SpecAny and SpecTags have one upgrader; SpecRace has two on the   *)
(* same database, the one that is not running being kept in `other`.       *)
(* SpecInfo applies RelayInfo::new to every configuration.                 *)
(***************************************************************************)
EXTENDS Integers, Sequences, FiniteSets, TLC

\* ------------------------------------------------------------------ bounds
\* Largest number of rows of the event table in an initial database.
NumEvents == 2
\* Largest length of a tag value drawn from the alphabet.
MaxLen == 2

\* ------------------------------------------------------------- the registry
\* m001::VERSION .. m004::VERSION
M001 == 1
M002 == 2
M003 == 3
M004 == 4
Serials == {M001, M002, M003, M004}

\* One SQL statement of a migration: the schema object it creates and the
\* objects that must exist for it to execute.  "check" says what the statement
\* verifies: "new" (the object must not exist yet), "any" (nothing: DROP NOT
\* NULL succeeds on a nullable column) or "unique" (new, and the stored tag
\* rows satisfy the constraint being added).
Stmt(obj, needs, check) == [creates |-> obj, needs |-> needs, check |-> check]

\* m001::migration: event, tag and user_verification tables with their indexes.
Sql001 ==
    << Stmt("event", {}, "new"),
       Stmt("event_created_at_idx", {"event"}, "new"),
       Stmt("event_pub_key_idx", {"event"}, "new"),
       Stmt("event_delegated_by_idx", {"event"}, "new"),
       Stmt("tag", {"event"}, "new"),
       Stmt("tag_event_id_idx", {"tag"}, "new"),
       Stmt("tag_value_idx", {"tag"}, "new"),
       Stmt("user_verification", {"event"}, "new"),
       Stmt("user_verification_event_id_idx", {"user_verification"}, "new"),
       Stmt("user_verification_name_idx", {"user_verification"}, "new") >>

\* m002::migration: the value_hex column, value made nullable, the hex index.
Sql002 ==
    << Stmt("tag.value_hex", {"tag"}, "new"),
       Stmt("tag.value_nullable", {"tag"}, "any"),
       Stmt("tag_value_hex_idx", {"tag.value_hex"}, "new") >>

\* m003::migration: UNIQUE (event_id, "name", value) on tag.
Sql003 ==
    << Stmt("unique_constraint_name", {"tag"}, "unique") >>

\* m004::migration: account table, status enum, invoice table.
Sql004 ==
    << Stmt("account", {}, "new"),
       Stmt("status", {}, "new"),
       Stmt("invoice", {"account", "status"}, "new") >>

\* The statements of the migration with serial number n.
Sql(n) ==
    CASE n = M001 -> Sql001
      [] n = M002 -> Sql002
      [] n = M003 -> Sql003
      [] n = M004 -> Sql004

\* The schema objects the first k statements of migration n create.
Created(n, k) == { Sql(n)[i].creates : i \in 1..k }

\* All schema objects of migration n.
ObjectsOf(n) == Created(n, Len(Sql(n)))

\* --------------------------------------------------------- strings and bytes
\* A string is a sequence of one-character strings.
HexDigits == << "0", "1", "2", "3", "4", "5", "6", "7", "8", "9",
                "a", "b", "c", "d", "e", "f" >>

\* ASCII codes of the characters that occur in the modelled events.
Ascii ==
    [ c \in {"0", "1", "a", "b", "c", "e", "p", "x", "A", "B", "Z", "q"} |->
        CASE c = "0" -> 48 [] c = "1" -> 49
          [] c = "a" -> 97 [] c = "b" -> 98 [] c = "c" -> 99
          [] c = "e" -> 101 [] c = "p" -> 112 [] c = "x" -> 120
          [] c = "A" -> 65 [] c = "B" -> 66 [] c = "Z" -> 90 [] c = "q" -> 113 ]

\* str::as_bytes on an ASCII string: one byte per character.
as_bytes(s) == [ i \in 1..Len(s) |-> Ascii[s[i]] ]

\* crate::utils::is_lower_hex: every character is one of 0-9a-f.
is_lower_hex(s) ==
    \A i \in 1..Len(s) : \E d \in 1..Len(HexDigits) : HexDigits[d] = s[i]

\* The letters hex::decode reads as digits besides those of HexDigits.
UpperHex == << "A", "B", "C", "D", "E", "F" >>

\* The value of one hexadecimal digit, of either case.
HexVal(c) ==
    IF \E d \in 1..Len(HexDigits) : HexDigits[d] = c
    THEN (CHOOSE d \in 1..Len(HexDigits) : HexDigits[d] = c) - 1
    ELSE (CHOOSE d \in 1..Len(UpperHex) : UpperHex[d] = c) + 9

\* Every character is a hexadecimal digit of either case.
is_hex(s) ==
    \A i \in 1..Len(s) :
        \/ \E d \in 1..Len(HexDigits) : HexDigits[d] = s[i]
        \/ \E d \in 1..Len(UpperHex) : UpperHex[d] = s[i]

\* hex::decode on an even-length hex string: one byte per two digits.
hex_decode(s) ==
    [ i \in 1..(Len(s) \div 2) |-> 16 * HexVal(s[2 * i - 1]) + HexVal(s[2 * i]) ]

\* crate::event::single_char_tagname: Some(char) iff the name is one character.
single_char_tagname(name) == Len(name) = 1

\* A nullable bytea column: NULL, or one value.
NULL == << >>
Some(v) == << v >>

\* hex::decode(tagval).ok(): the bytes, or None for a string of odd length or
\* with a character that is no hexadecimal digit.
hex_decode_ok(s) ==
    IF Len(s) % 2 = 0 /\ is_hex(s) THEN Some(hex_decode(s)) ELSE NULL

\* The test without the length: any string of 0-9a-f passes.
QualifiesAnyLength(tagval) == is_lower_hex(tagval)

\* The test with upper case accepted: any even-length hex string passes.
QualifiesAnyCase(tagval) == (Len(tagval) % 2 = 0) /\ is_hex(tagval)

\* The losslessness test of rebuild_tags.
Qualifies(tagval) == (Len(tagval) % 2 = 0) /\ is_lower_hex(tagval)

\* The row rebuild_tags binds for tag t of event id.
RowFor(id, t) ==
    IF Qualifies(t[2])
    THEN [event_id |-> id, name |-> t[1],
          value |-> NULL, value_hex |-> hex_decode_ok(t[2])]
    ELSE [event_id |-> id, name |-> t[1],
          value |-> Some(as_bytes(t[2])), value_hex |-> NULL]

\* The loop never leaves a tag out.
SkipTagNever(tagname) == FALSE

\* `if tagnamechar_opt.is_none() { continue; }`
SkipTag(tagname) == ~single_char_tagname(tagname)

\* The tags of an event rebuild_tags writes a row for.
Retained(tags) ==
    SelectSeq(tags, LAMBDA t : Len(t) > 1 /\ single_char_tagname(t[1]))

\* ------------------------------------------------------------ stored events
TagE == << "e" >>
TagP == << "p" >>

\* Event contents: a JSON document with a tags field, a document that does
\* not parse, or bytes that are not UTF-8.
Json(tags) == [kind |-> "json", tags |-> tags]
DupHex == Json(<< << TagE, << "a", "b" >> >>, << TagE, << "a", "b" >> >> >>)
DupRaw == Json(<< << TagP, << "Z", "q" >> >>, << TagP, << "Z", "q" >> >> >>)
Mixed ==
    Json(<< << << "x" >> >>,
            << >>,
            << << "e", "e" >>, << "a", "b" >> >>,
            << << >>, << "a", "b" >> >>,
            << TagE, << "a", "b", "c", "1" >> >>,
            << TagP, << "a", "b", "c" >> >>,
            << TagP, << "A", "B" >> >> >>)
\* The characters tag values are drawn from: a digit, a lowercase and an
\* uppercase hexadecimal letter, and a letter that is no hexadecimal digit.
Alphabet == { "1", "a", "A", "q" }

\* The strings of at most n characters of the alphabet.
Strings(n) == UNION { [1..k -> Alphabet] : k \in 0..n }

BadJson == [kind |-> "badjson", tags |-> << >>]
BadUtf8 == [kind |-> "badutf8", tags |-> << >>]
Contents == {DupHex, DupRaw, Mixed, BadJson, BadUtf8}

\* ------------------------------------------------------------------- state
VARIABLES
    migrationsTable, \* the table "migrations" exists
    ledger,          \* committed rows of migrations: serial number -> row count
    schema,          \* committed schema objects
    event,           \* committed event table: content by id, ids 1..Len(event)
    tag,             \* committed tag table: rows in insertion order
    pc,              \* position of the upgrader in run_migrations
    cur,             \* serial number run_migration is working on
    result,          \* MigrationResult of the last run_migration
    m002_result,     \* run_migrations' local m002_result
    txStmts,         \* statements executed in the open migration transaction
    txInserted,      \* the ledger row is inserted in the open transaction
    updTag,          \* the tag table as update_tx sees it
    cursor,          \* ids the event stream of rebuild_tags has yet to yield
    event_id,        \* id of the row rebuild_tags is working on
    pending,         \* tags of that event the for loop has yet to visit
    version,         \* the value run_migrations returned, 0 while it has not
    \* history of the current run
    ledger0,         \* serial numbers in the ledger when the run started
    examined,        \* serial numbers run_migration has queried the ledger for
    applied,         \* serial numbers whose transaction committed, in order
    backfills,       \* how many times rebuild_tags was entered
    backfillAt,      \* what the run had done when rebuild_tags was entered
    rebuilt,         \* update_tx of rebuild_tags committed
    faulted,         \* a call failed for an outside reason (I/O, malformed
                     \* stored data), or the process crashed
    preTag,          \* the committed tag table when rebuild_tags was entered
    before,          \* committed ledger and schema at the last db.begin()
    failure,         \* where the run stopped short, << >> while it has not
    prev,            \* the run before: whether it returned Ok, and what it left
    \* a second upgrader on the same database
    who,             \* the upgrader whose position the variables above hold
    other,           \* the position of the upgrader that is not running now
    \* the relay information document
    info,            \* config::Info handed to RelayInfo::new
    pay,             \* config::PayToRelay handed to RelayInfo::new
    relay_info       \* the RelayInfo it returned, << >> while it has not

db == << migrationsTable, ledger, schema, event, tag >>
txv == << txStmts, txInserted >>
rtv == << updTag, cursor, event_id, pending >>
loc == << cur, result, m002_result, version >>
sched == << who, other >>
nip11 == << info, pay, relay_info >>
hist == << ledger0, examined, applied, backfills, backfillAt, rebuilt, faulted,
          preTag, before, failure, prev, sched, nip11 >>
vars == << db, pc, loc, txv, rtv, hist >>

Running ==
    { "prepare", "check", "begin", "run", "insert", "commit", "return",
      "rt_begin", "rt_begin_update", "rt_delete", "rt_count", "rt_fetch",
      "rt_tag", "rt_commit",
      "version" }
Stopped == { "done", "panicked", "errored", "crashed" }

\* ----------------------------------------------------------- the database
InLedger == { n \in Serials : ledger[n] > 0 }

\* No two rows agree on (event_id, name, value) with value not NULL: what
\* UNIQUE (event_id, "name", value) demands (NULLs are distinct).
UniqueOk(rows) ==
    \A i, j \in 1..Len(rows) :
        (i < j /\ rows[i].value # NULL)
            => ~( rows[i].event_id = rows[j].event_id
                  /\ rows[i].name = rows[j].name
                  /\ rows[i].value = rows[j].value )

\* CanExecute for statements written with IF NOT EXISTS: an object that is
\* there is no error.
CanExecuteIfNotExists(s, sch, rows) ==
    /\ s.needs \subseteq sch
    /\ (s.check = "unique") => UniqueOk(rows)

\* Statement s executes against schema sch and tag rows `rows`.
CanExecute(s, sch, rows) ==
    /\ s.needs \subseteq sch
    /\ (s.check # "any") => (s.creates \notin sch)
    /\ (s.check = "unique") => UniqueOk(rows)

\* Statement s takes the exclusive lock of the tag table: ALTER TABLE tag and
\* CREATE INDEX ... ON tag.
OnTag(s) ==
    s.creates \in { "tag.value_hex", "tag.value_nullable", "tag_value_hex_idx",
                    "unique_constraint_name" }

\* Upgrader o holds the lock of the tag table in its open migration
\* transaction.
TagLockedBy(o) ==
    /\ o.pc \in { "run", "insert", "commit" }
    /\ \E i \in 1..o.txStmts : OnTag(Sql(o.cur)[i])

\* Upgrader o has written to the tag table on its open update_tx.
WritesTag(o) == o.pc \in { "rt_count", "rt_fetch", "rt_tag", "rt_commit" }

\* Statement s waits for the open transaction of upgrader o: o created the
\* same object and has not committed, or s needs the lock of the tag table
\* while o holds it or has uncommitted writes to the table.
Blocked(s, o) ==
    \/ /\ o.pc \in { "run", "insert", "commit" }
       /\ s.creates \in Created(o.cur, o.txStmts)
    \/ /\ OnTag(s)
       /\ (TagLockedBy(o) \/ WritesTag(o))

\* INSERT INTO tag ... ON CONFLICT DO NOTHING: the row is skipped when a
\* unique index of the table rejects it, and appended otherwise.
InsertTag(rows, row, sch) ==
    IF /\ "unique_constraint_name" \in sch
       /\ row.value # NULL
       /\ \E i \in 1..Len(rows) :
              /\ rows[i].event_id = row.event_id
              /\ rows[i].name = row.name
              /\ rows[i].value = row.value
    THEN rows
    ELSE Append(rows, row)

\* The largest element of a non-empty set of numbers.
Max(S) == CHOOSE m \in S : \A x \in S : x <= m

\* The rows a version 1 relay stored for tag t of event id: the value as it is.
RowV1(id, t) ==
    [event_id |-> id, name |-> t[1], value |-> Some(as_bytes(t[2])),
     value_hex |-> NULL]

\* The relay's event writer: rows after inserting, in order, one row per
\* tag of `tags` for event id, in the representation the schema has.
RECURSIVE InsertRows(_, _, _, _)
InsertRows(rows, id, tags, sch) ==
    IF tags = << >> THEN rows
    ELSE InsertRows(
             InsertTag(rows,
                       IF "tag.value_hex" \in sch THEN RowFor(id, Head(tags))
                       ELSE RowV1(id, Head(tags)),
                       sch),
             id, Tail(tags), sch)

\* The relay's event writer over the events i.. of ev, in id order; an
\* event whose content it could not read has no tag rows.
RECURSIVE RowsFrom(_, _, _, _)
RowsFrom(rows, ev, i, sch) ==
    IF i > Len(ev) THEN rows
    ELSE RowsFrom(IF ev[i].kind = "json"
                  THEN InsertRows(rows, i, Retained(ev[i].tags), sch)
                  ELSE rows,
                  ev, i + 1, sch)

\* The tag table the relay wrote for the events ev of a database with
\* schema sch: one row per retained tag of each event.
StoredTags(ev, sch) == RowsFrom(<< >>, ev, 1, sch)

\* The for loop of rebuild_tags over the tags of event id that have more
\* than one element: Some(rows) after the INSERTs, None when an INSERT
\* returns an Err (the value_hex INSERT on a table without that column).
RECURSIVE LoopTags(_, _, _, _)
LoopTags(rows, id, tags, sch) ==
    IF tags = << >> THEN Some(rows)
    ELSE IF SkipTag(Head(tags)[1]) THEN LoopTags(rows, id, Tail(tags), sch)
    ELSE IF Qualifies(Head(tags)[2]) /\ "tag.value_hex" \notin sch THEN NULL
    ELSE LoopTags(InsertTag(rows, RowFor(id, Head(tags)), sch),
                  id, Tail(tags), sch)

\* The while loop of rebuild_tags over the events i.. of ev: None when the
\* content of an event is not UTF-8 (unwrap) or does not parse (`?`), or
\* when the for loop ends with an Err.
RECURSIVE LoopEvents(_, _, _, _)
LoopEvents(rows, ev, i, sch) ==
    IF i > Len(ev) THEN Some(rows)
    ELSE IF ev[i].kind # "json" THEN NULL
    ELSE LET r == LoopTags(rows, i,
                           SelectSeq(ev[i].tags, LAMBDA x : Len(x) > 1), sch)
         IN  IF r = NULL THEN NULL ELSE LoopEvents(r[1], ev, i + 1, sch)

\* What rebuild_tags commits as the tag table for events ev on schema sch:
\* Some(rows), or None when it ends without committing.
RebuiltTags(ev, sch) == LoopEvents(<< >>, ev, 1, sch)

\* ------------------------------------------------- the relay information
\* Largest admission_cost and cost_per_event of a configuration.
MaxCost == 2

\* info::UNIT
UNIT == "sats"

\* Relay URLs of a configuration: ws, wss, and one with "ws" in the host.
Urls ==
    { << "w", "s", ":", "r" >>,
      << "w", "s", "s", ":", "r" >>,
      << "w", "s", ":", "w", "s" >> }

\* str::replace("ws", "http"): every occurrence, left to right.
RECURSIVE ReplaceWs(_)
ReplaceWs(s) ==
    IF s = << >> THEN << >>
    ELSE IF Len(s) >= 2 /\ s[1] = "w" /\ s[2] = "s"
         THEN << "h", "t", "t", "p" >> \o ReplaceWs(SubSeq(s, 3, Len(s)))
         ELSE << Head(s) >> \o ReplaceWs(Tail(s))

\* The admission list filled whatever the cost.
AdmissionFeeAlways(p) ==
    Some(<< [amount |-> p.admission_cost, unit |-> UNIT] >>)

\* admission_fee: one Fee when admission_cost > 0.
AdmissionFee(p) ==
    IF p.admission_cost > 0
    THEN Some(<< [amount |-> p.admission_cost, unit |-> UNIT] >>)
    ELSE NULL

\* post_fee: one Fee when cost_per_event > 0.
PostFee(p) ==
    IF p.cost_per_event > 0
    THEN Some(<< [amount |-> p.cost_per_event, unit |-> UNIT] >>)
    ELSE NULL

\* payment_url: the relay URL with ws replaced by http, and "join".
PaymentUrl(i, p) ==
    IF p.enabled /\ i.relay_url # NULL
    THEN Some(ReplaceWs(i.relay_url[1]) \o << "j", "o", "i", "n" >>)
    ELSE NULL

\* RelayInfo::new.
RelayInfoNew(i, p) ==
    [id |-> i.relay_url,
     name |-> i.name,
     description |-> i.description,
     pubkey |-> i.pubkey,
     contact |-> i.contact,
     limitation |-> Some([payment_required |-> Some(p.enabled)]),
     payment_url |-> IF p.enabled THEN PaymentUrl(i, p) ELSE NULL,
     fees |-> IF p.enabled
              THEN Some([admission |-> AdmissionFee(p),
                         publication |-> PostFee(p)])
              ELSE NULL]

\* The configuration of a relay that has not built its document.
NoConfig ==
    /\ info = [relay_url |-> NULL, name |-> NULL, description |-> NULL,
               pubkey |-> NULL, contact |-> NULL]
    /\ pay = [enabled |-> FALSE, admission_cost |-> 0, cost_per_event |-> 0]
    /\ relay_info = << >>

\* ------------------------------------------------------------------ Init
\* The migrations of L whose statements find what they need among the
\* objects of L's migrations: the schema a ledger L can stand for.
SchemaFor(L) ==
    LET all == UNION { ObjectsOf(n) : n \in L }
    IN  UNION { ObjectsOf(n) :
                  n \in { m \in L : \A i \in 1..Len(Sql(m)) :
                                        Sql(m)[i].needs \subseteq all } }

\* A database whose ledger holds the serial numbers L.
InitDB(L) ==
    /\ ledger = [n \in Serials |-> IF n \in L THEN 1 ELSE 0]
    /\ migrationsTable \in (IF L = {} THEN BOOLEAN ELSE {TRUE})
    /\ schema = SchemaFor(L)
    /\ event \in (IF "event" \in schema
                  THEN UNION { [1..k -> Contents] : k \in 0..NumEvents }
                  ELSE { << >> })
    /\ tag = IF "tag" \in schema THEN StoredTags(event, schema) ELSE << >>

NoPrev == [ok |-> FALSE, ledger |-> [n \in Serials |-> 0], schema |-> {},
           tag |-> << >>,
           version |-> 0]

\* run_migrations is entered.
InitRun ==
    /\ pc = "prepare"
    /\ cur = 0 /\ result = "none" /\ m002_result = "none" /\ version = 0
    /\ txStmts = 0 /\ txInserted = FALSE
    /\ updTag = << >> /\ cursor = << >> /\ event_id = 0 /\ pending = << >>
    /\ ledger0 = InLedger /\ examined = << >> /\ applied = << >>
    /\ backfills = 0
    /\ backfillAt = << >> /\ rebuilt = FALSE /\ faulted = FALSE
    /\ preTag = << >> /\ before = << >> /\ failure = << >>

\* The position of an upgrader, as a record: what Switch saves and restores.
Local ==
    [pc |-> pc, cur |-> cur, result |-> result, m002_result |-> m002_result,
     version |-> version, txStmts |-> txStmts, txInserted |-> txInserted,
     updTag |-> updTag, cursor |-> cursor, event_id |-> event_id,
     pending |-> pending, ledger0 |-> ledger0, examined |-> examined,
     applied |-> applied, backfills |-> backfills, backfillAt |-> backfillAt,
     rebuilt |-> rebuilt, faulted |-> faulted, preTag |-> preTag,
     before |-> before, failure |-> failure, prev |-> prev]

\* No second upgrader.
Off ==
    [pc |-> "off", cur |-> 0, result |-> "none", m002_result |-> "none",
     version |-> 0, txStmts |-> 0, txInserted |-> FALSE,
     updTag |-> << >>, cursor |-> << >>, event_id |-> 0,
     pending |-> << >>, ledger0 |-> {}, examined |-> << >>,
     applied |-> << >>, backfills |-> 0, backfillAt |-> << >>,
     rebuilt |-> FALSE, faulted |-> FALSE, preTag |-> << >>,
     before |-> << >>, failure |-> << >>, prev |-> NoPrev]

\* A database this upgrader left behind: the ledger is 1..k.
Init ==
    /\ \E k \in 0..M004 : InitDB(1..k)
    /\ InitRun
    /\ prev = NoPrev
    /\ who = "a" /\ other = Off
    /\ NoConfig

\* A database with any ledger.
InitAny ==
    /\ \E L \in SUBSET Serials : InitDB(L)
    /\ InitRun
    /\ prev = NoPrev
    /\ who = "a" /\ other = Off
    /\ NoConfig

\* The event tables of the databases two upgraders race on.
RaceEvents == { << >>, << DupRaw >> }

\* A version 1 database with one event that carries two "e" tags, the values
\* being any two strings of the alphabet.
InitTags ==
    /\ ledger = [n \in Serials |-> IF n = M001 THEN 1 ELSE 0]
    /\ migrationsTable = TRUE
    /\ schema = SchemaFor({M001})
    /\ \E v1, v2 \in Strings(MaxLen) :
          event = << Json(<< << TagE, v1 >>, << TagE, v2 >> >>) >>
    /\ tag = StoredTags(event, schema)
    /\ InitRun
    /\ prev = NoPrev
    /\ who = "a" /\ other = Off
    /\ NoConfig

\* Two upgraders enter run_migrations on the same database.
InitRace ==
    /\ \E k \in 0..M004 : InitDB(1..k)
    /\ event \in RaceEvents
    /\ InitRun
    /\ prev = NoPrev
    /\ who = "a" /\ other = Local
    /\ NoConfig

\* Any configuration, on a database no upgrader has touched.
InitInfo ==
    /\ InitDB({}) /\ migrationsTable = FALSE
    /\ InitRun
    /\ prev = NoPrev
    /\ who = "a" /\ other = Off
    /\ info \in [relay_url : {NULL} \cup { Some(u) : u \in Urls },
                  name : {NULL, Some(<< "r" >>)},
                  description : {NULL}, pubkey : {NULL}, contact : {NULL}]
    /\ pay \in [enabled : BOOLEAN, admission_cost : 0..MaxCost,
                 cost_per_event : 0..MaxCost]
    /\ relay_info = << >>

\* ------------------------------------------------------------- the upgrader
\* Rollback for statements that ran on the pool instead of the transaction:
\* each was committed as it executed.
RollbackAutocommit(how, outside) ==
    /\ pc' = how
    /\ schema' = schema \cup (IF pc \in {"run", "insert", "commit"}
                              THEN Created(cur, txStmts) ELSE {})
    /\ txStmts' = 0 /\ txInserted' = FALSE
    /\ updTag' = << >> /\ cursor' = << >> /\ pending' = << >>
    /\ faulted' = (faulted \/ outside)
    /\ failure' = << [at |-> pc, n |-> cur, stmts |-> txStmts,
                      inserted |-> txInserted, rows |-> Len(updTag)] >>
    /\ UNCHANGED << migrationsTable, ledger, event, tag, loc, event_id, ledger0,
                    examined, applied, backfills, backfillAt, rebuilt, preTag,
                    before, prev, sched,
                    nip11 >>

\* Rollback for an Err that is dropped instead of unwrapped or returned: the
\* transaction is rolled back and run_migrations carries on.
RollbackSwallowed(how, outside) ==
    /\ pc' = "return"
    /\ txStmts' = 0 /\ txInserted' = FALSE
    /\ updTag' = << >> /\ cursor' = << >> /\ pending' = << >>
    /\ faulted' = (faulted \/ outside)
    /\ failure' = << [at |-> pc, n |-> cur, stmts |-> txStmts,
                      inserted |-> txInserted, rows |-> Len(updTag)] >>
    /\ UNCHANGED << db, loc, event_id, ledger0, examined, applied, backfills,
                    backfillAt, rebuilt, preTag, before, prev, sched,
                    nip11 >>

\* The run ends without returning Ok: a panic (unwrap on an Err), an Err
\* returned by `?`, or a crash.  Dropping the open transactions rolls them
\* back: nothing they did reaches the committed tables.
Rollback(how, outside) ==
    /\ pc' = how
    /\ txStmts' = 0 /\ txInserted' = FALSE
    /\ updTag' = << >> /\ cursor' = << >> /\ pending' = << >>
    /\ faulted' = (faulted \/ outside)
    /\ failure' = << [at |-> pc, n |-> cur, stmts |-> txStmts,
                      inserted |-> txInserted, rows |-> Len(updTag)] >>
    /\ UNCHANGED << db, loc, event_id, ledger0, examined, applied, backfills,
                    backfillAt, rebuilt, preTag, before, prev, sched,
                    nip11 >>

\* prepare_migrations_table: CREATE TABLE IF NOT EXISTS migrations.
PrepareMigrationsTable ==
    /\ pc = "prepare"
    /\ \E ok \in BOOLEAN :
         IF ok
         THEN /\ migrationsTable' = TRUE
              /\ pc' = "check" /\ cur' = M001
              /\ UNCHANGED << ledger, schema, event, tag, result, m002_result,
                              version, txv, rtv, hist >>
         ELSE Rollback("panicked", TRUE)

\* The test with the comparison off by one: zero rows pass it too.
AlreadyAppliedOffByOne(row) == row >= 0

\* run_migration's test of the COUNT(*) it read.
AlreadyApplied(row) == row > 0

\* run_migration: SELECT COUNT(*) FROM migrations WHERE serial_number = cur,
\* and the early return when the serial number is there.
CountRows ==
    /\ pc = "check"
    /\ \E ok \in BOOLEAN :
         IF ok /\ migrationsTable
         THEN /\ examined' = Append(examined, cur)
              /\ IF AlreadyApplied(ledger[cur])
                 THEN pc' = "return" /\ result' = "NotNeeded"
                 ELSE pc' = "begin" /\ result' = "none"
              /\ UNCHANGED << db, cur, m002_result, version, txv, rtv, ledger0,
                              applied, backfills, backfillAt, rebuilt, faulted,
                              preTag, before, failure, prev, sched,
                    nip11 >>
         ELSE Rollback("panicked", ~ok)

\* run_migration: db.begin().
BeginMigration ==
    /\ pc = "begin"
    /\ \E ok \in BOOLEAN :
         IF ok
         THEN /\ pc' = "run" /\ txStmts' = 0 /\ txInserted' = FALSE
              /\ before' = << [ledger |-> ledger, schema |-> schema] >>
              /\ UNCHANGED << db, loc, rtv, ledger0, examined, applied,
                              backfills, backfillAt, rebuilt, faulted, preTag,
                              failure, prev, sched,
                    nip11 >>
         ELSE Rollback("panicked", TRUE)

\* SimpleSqlMigration::run: the next statement of the migration executes in
\* the transaction, against the committed schema and what the transaction
\* created so far; it waits while the other upgrader's open transaction
\* holds what it needs.  An Err is unwrapped: panic, and the transaction is
\* dropped.
ExecuteSql ==
    /\ pc = "run"
    /\ ~Blocked(Sql(cur)[txStmts + 1], other)
    /\ \E ok \in BOOLEAN :
         IF ok /\ CanExecute(Sql(cur)[txStmts + 1],
                             schema \cup Created(cur, txStmts), tag)
         THEN /\ txStmts' = txStmts + 1
              /\ pc' = IF txStmts + 1 = Len(Sql(cur)) THEN "insert" ELSE "run"
              /\ UNCHANGED << db, loc, txInserted, rtv, hist >>
         ELSE Rollback("panicked", ~ok)

\* run_migration: INSERT INTO migrations VALUES (cur), in the transaction.
InsertLedger ==
    /\ pc = "insert"
    /\ \E ok \in BOOLEAN :
         IF ok
         THEN /\ txInserted' = TRUE /\ pc' = "commit"
              /\ UNCHANGED << db, loc, txStmts, rtv, hist >>
         ELSE Rollback("panicked", TRUE)

\* Commit with the ledger row lost: the INSERT ran outside the transaction
\* that is committed.
CommitSchemaOnly(sch, led, n, stmts, inserted) ==
    [schema |-> sch \cup Created(n, stmts), ledger |-> led]

\* What transaction.commit() makes of the committed schema and ledger.
Commit(sch, led, n, stmts, inserted) ==
    [schema |-> sch \cup Created(n, stmts),
     ledger |-> [led EXCEPT ![n] = @ + (IF inserted THEN 1 ELSE 0)]]

\* run_migration: transaction.commit(), then MigrationResult::Upgraded.
CommitMigration ==
    /\ pc = "commit"
    /\ \E ok \in BOOLEAN :
         IF ok
         THEN /\ schema' = Commit(schema, ledger, cur, txStmts, txInserted).schema
              /\ ledger' = Commit(schema, ledger, cur, txStmts, txInserted).ledger
              /\ txStmts' = 0 /\ txInserted' = FALSE
              /\ applied' = Append(applied, cur)
              /\ result' = "Upgraded" /\ pc' = "return"
              /\ UNCHANGED << migrationsTable, event, tag, cur, m002_result,
                              version, rtv, ledger0, examined, backfills,
                              backfillAt, rebuilt, faulted, preTag, before,
                              failure, prev, sched,
                    nip11 >>
         ELSE Rollback("panicked", TRUE)

\* The test dropped: rebuild_tags runs whatever run_migration returned.
NeedsRebuildAlways(r) == TRUE

\* run_migrations: `if m002_result == MigrationResult::Upgraded`.
NeedsRebuild(r) == r = "Upgraded"

\* AfterMigration with the rebuild_tags call placed after m003 instead of
\* after m002.
AfterMigrationRebuildLate ==
    /\ pc = "return"
    /\ m002_result' = IF cur = M002 THEN result ELSE m002_result
    /\ IF cur = M003 /\ m002_result = "Upgraded" /\ backfills = 0
       THEN pc' = "rt_begin" /\ cur' = cur
       ELSE IF cur = M004
            THEN pc' = "version" /\ cur' = cur
            ELSE pc' = "check" /\ cur' = cur + 1
    /\ UNCHANGED << db, result, version, txv, rtv, hist >>

\* run_migrations between two calls: after m001 comes m002; after m002 the
\* result is kept and decides whether rebuild_tags runs before m003; after
\* m003 comes m004; after m004 the version is read.
AfterMigration ==
    /\ pc = "return"
    /\ m002_result' = IF cur = M002 THEN result ELSE m002_result
    /\ IF cur = M002 /\ NeedsRebuild(result)
       THEN pc' = "rt_begin" /\ cur' = cur
       ELSE IF cur = M004
            THEN pc' = "version" /\ cur' = cur
            ELSE pc' = "check" /\ cur' = cur + 1
    /\ UNCHANGED << db, result, version, txv, rtv, hist >>

\* ------------------------------------------------------------ rebuild_tags
\* rebuild_tags is entered: db.begin() for the read transaction tx.
RebuildBegin ==
    /\ pc = "rt_begin"
    /\ \E ok \in BOOLEAN :
         IF ok
         THEN /\ pc' = "rt_begin_update"
              /\ backfills' = backfills + 1
              /\ backfillAt' = << [examined |-> examined, applied |-> applied,
                                   ledger |-> InLedger, schema |-> schema] >>
              /\ preTag' = tag
              /\ UNCHANGED << db, loc, txv, rtv, ledger0, examined, applied,
                              rebuilt, faulted, before, failure, prev, sched,
                              nip11 >>
         ELSE Rollback("panicked", TRUE)

\* db.begin() for the write transaction update_tx, which starts from the
\* committed tag table.
RebuildBeginUpdate ==
    /\ pc = "rt_begin_update"
    /\ \E ok \in BOOLEAN :
         IF ok
         THEN /\ pc' = "rt_delete"
              /\ updTag' = tag
              /\ UNCHANGED << db, loc, txv, cursor, event_id, pending, hist >>
         ELSE Rollback("panicked", TRUE)

\* The DELETE executed on the pool instead of update_tx: it is committed
\* at once.
RebuildDeleteOnPool ==
    /\ pc = "rt_delete"
    /\ ~TagLockedBy(other)
    /\ \E ok \in BOOLEAN :
         IF ok /\ "tag" \in schema
         THEN /\ updTag' = << >>
              /\ tag' = << >>
              /\ pc' = "rt_count"
              /\ UNCHANGED << migrationsTable, ledger, schema, event, loc, txv,
                              cursor, event_id, pending, hist >>
         ELSE Rollback("errored", ~ok)

\* The DELETE aimed at the event table and executed on the pool: the events
\* are gone at once, and their tag rows with them (ON DELETE CASCADE).
RebuildDeleteEvent ==
    /\ pc = "rt_delete"
    /\ ~TagLockedBy(other)
    /\ \E ok \in BOOLEAN :
         IF ok /\ "tag" \in schema
         THEN /\ updTag' = << >>
              /\ tag' = << >>
              /\ event' = << >>
              /\ pc' = "rt_count"
              /\ UNCHANGED << migrationsTable, ledger, schema, loc, txv,
                              cursor, event_id, pending, hist >>
         ELSE Rollback("errored", ~ok)

\* DELETE FROM tag, executed on update_tx; an Err is returned with `?`.
RebuildDelete ==
    /\ pc = "rt_delete"
    /\ ~TagLockedBy(other)
    /\ \E ok \in BOOLEAN :
         IF ok /\ "tag" \in schema
         THEN /\ updTag' = << >>
              /\ pc' = "rt_count"
              /\ UNCHANGED << db, loc, txv, cursor, event_id, pending, hist >>
         ELSE Rollback("errored", ~ok)

\* SELECT COUNT(*) from event on tx (for the progress bar), and the stream
\* SELECT id, content FROM event ORDER BY id is opened on tx.
RebuildCount ==
    /\ pc = "rt_count"
    /\ \E ok \in BOOLEAN :
         IF ok /\ "event" \in schema
         THEN /\ cursor' = [i \in 1..Len(event) |-> i]
              /\ pc' = "rt_fetch"
              /\ UNCHANGED << db, loc, txv, updTag, event_id, pending, hist >>
         ELSE Rollback("panicked", ~ok)

\* events.next(): a poll of the stream, which is a database call whether or
\* not a row is left.  It yields Some(Err), which row.unwrap() panics on; or
\* the stream ends and the loop is left; or it yields a row, whose content
\* is read as UTF-8 (unwrap) and parsed as an Event (`?`), and the for loop
\* then visits its tags of more than one element.
RebuildFetch ==
    /\ pc = "rt_fetch"
    /\ \E ok \in BOOLEAN :
         IF ~ok
         THEN Rollback("panicked", TRUE)
         ELSE IF cursor = << >>
         THEN /\ pc' = "rt_commit"
              /\ UNCHANGED << db, loc, txv, rtv, hist >>
         ELSE IF event[Head(cursor)].kind = "badutf8"
              THEN Rollback("panicked", TRUE)
              ELSE IF event[Head(cursor)].kind = "badjson"
              THEN Rollback("errored", TRUE)
              ELSE /\ event_id' = Head(cursor)
                   /\ cursor' = Tail(cursor)
                   /\ pending' = SelectSeq(event[Head(cursor)].tags,
                                           LAMBDA x : Len(x) > 1)
                   /\ pc' = "rt_tag"
                   /\ UNCHANGED << db, loc, txv, updTag, hist >>

\* One pass of the for loop: a tag whose name is not a single character is
\* skipped; otherwise its row is inserted on update_tx with ON CONFLICT DO
\* NOTHING, into value_hex or into value.  After the last tag the stream is
\* polled again.
RebuildTag ==
    /\ pc = "rt_tag"
    /\ IF pending = << >>
       THEN /\ pc' = "rt_fetch"
            /\ UNCHANGED << db, loc, txv, rtv, hist >>
       ELSE IF SkipTag(Head(pending)[1])
       THEN /\ pending' = Tail(pending)
            /\ UNCHANGED << db, pc, loc, txv, updTag, cursor, event_id, hist >>
       ELSE \E ok \in BOOLEAN :
              IF ok /\ (Qualifies(Head(pending)[2]) => "tag.value_hex" \in schema)
              THEN /\ updTag' = InsertTag(updTag, RowFor(event_id, Head(pending)),
                                          schema)
                   /\ pending' = Tail(pending)
                   /\ UNCHANGED << db, pc, loc, txv, cursor, event_id, hist >>
              ELSE Rollback("errored", ~ok)

\* The commit of an incremental merge: what was committed stays, what
\* update_tx inserted is added.
CommitTagsMerge(committed, written) == committed \o written

\* What update_tx.commit() makes of the committed tag table.
CommitTags(committed, written) == written

\* update_tx.commit(); rebuild_tags returns Ok and run_migrations goes on
\* to m003.  tx is dropped.
RebuildCommit ==
    /\ pc = "rt_commit"
    /\ \E ok \in BOOLEAN :
         IF ok
         THEN /\ tag' = CommitTags(tag, updTag)
              /\ updTag' = << >>
              /\ rebuilt' = TRUE
              /\ pc' = "check" /\ cur' = M003
              /\ UNCHANGED << migrationsTable, ledger, schema, event, result,
                              m002_result, version, txv, cursor, event_id,
                              pending, ledger0, examined, applied, backfills,
                              backfillAt, faulted, preTag, before, failure,
                              prev, sched,
                    nip11 >>
         ELSE Rollback("errored", TRUE)

\* ------------------------------------------------------- the end of the run
\* current_version: SELECT max(serial_number) FROM migrations, unwrapped (the
\* max of no rows is NULL, which does not decode); run_migrations returns Ok.
CurrentVersion ==
    /\ pc = "version"
    /\ \E ok \in BOOLEAN :
         IF ok /\ InLedger # {}
         THEN /\ version' = Max(InLedger)
              /\ pc' = "done"
              /\ UNCHANGED << db, cur, result, m002_result, txv, rtv, hist >>
         ELSE Rollback("panicked", ~ok)

\* The process dies while run_migrations is running; the server rolls the
\* open transactions back.
Crash ==
    /\ pc \in Running
    /\ Rollback("crashed", TRUE)

\* The process is started again and run_migrations is entered.
Restart ==
    /\ pc \in Stopped
    /\ pc' = "prepare"
    /\ cur' = 0 /\ result' = "none" /\ m002_result' = "none" /\ version' = 0
    /\ event_id' = 0
    /\ ledger0' = InLedger /\ examined' = << >> /\ applied' = << >>
    /\ backfills' = 0 /\ backfillAt' = << >> /\ rebuilt' = FALSE
    /\ faulted' = FALSE
    /\ preTag' = << >> /\ before' = << >> /\ failure' = << >>
    /\ prev' = [ok |-> pc = "done", ledger |-> ledger, schema |-> schema,
                tag |-> tag, version |-> version]
    /\ UNCHANGED << db, txv, updTag, cursor, pending, sched, nip11 >>

\* The other upgrader runs: the two positions are exchanged.  The committed
\* database is shared; what a transaction has not committed stays with the
\* upgrader that opened it.
Switch ==
    /\ other.pc # "off"
    /\ who' = IF who = "a" THEN "b" ELSE "a"
    /\ other' = Local
    /\ pc' = other.pc /\ cur' = other.cur /\ result' = other.result
    /\ m002_result' = other.m002_result /\ version' = other.version
    /\ txStmts' = other.txStmts /\ txInserted' = other.txInserted
    /\ updTag' = other.updTag /\ cursor' = other.cursor
    /\ event_id' = other.event_id /\ pending' = other.pending
    /\ ledger0' = other.ledger0 /\ examined' = other.examined
    /\ applied' = other.applied /\ backfills' = other.backfills
    /\ backfillAt' = other.backfillAt /\ rebuilt' = other.rebuilt
    /\ faulted' = other.faulted /\ preTag' = other.preTag
    /\ before' = other.before /\ failure' = other.failure
    /\ prev' = other.prev
    /\ UNCHANGED << db, nip11 >>

Next ==
    \/ PrepareMigrationsTable
    \/ CountRows
    \/ BeginMigration
    \/ ExecuteSql
    \/ InsertLedger
    \/ CommitMigration
    \/ AfterMigration
    \/ RebuildBegin
    \/ RebuildBeginUpdate
    \/ RebuildDelete
    \/ RebuildCount
    \/ RebuildFetch
    \/ RebuildTag
    \/ RebuildCommit
    \/ CurrentVersion
    \/ Crash
    \/ Restart

Spec == Init /\ [][Next]_vars
SpecAny == InitAny /\ [][Next]_vars

\* One upgrader on the databases of InitTags.
SpecTags == InitTags /\ [][Next]_vars

\* The relay builds its information document from its configuration.
NewRelayInfo ==
    /\ relay_info = << >>
    /\ relay_info' = << RelayInfoNew(info, pay) >>
    /\ UNCHANGED << db, pc, loc, txv, rtv, ledger0, examined, applied,
                    backfills, backfillAt, rebuilt, faulted, preTag, before,
                    failure, prev, sched, info, pay >>

NextInfo == NewRelayInfo
SpecInfo == InitInfo /\ [][NextInfo]_vars

\* Two upgraders, interleaved at every database call.
NextRace == Next \/ Switch
SpecRace == InitRace /\ [][NextRace]_vars

\* ------------------------------------------------------------ properties
Range(f) == { f[i] : i \in 1..Len(f) }
Last(f) == f[Len(f)]
Failed == { "panicked", "errored", "crashed" }
InAttempt == { "run", "insert", "commit" }

\* C1: in every committed database state, also after a failure or a crash
\* inside run_migration, serial number n is in the ledger iff the schema
\* changes of migration n are committed: all of them when n is in the
\* ledger, none of them when it is not.
C1_LedgerSchemaInSync ==
    \A n \in Serials :
        IF ledger[n] > 0
        THEN ObjectsOf(n) \subseteq schema
        ELSE ObjectsOf(n) \cap schema = {}

\* C1 witness: the run stopped inside a migration's transaction after some
\* of its statements had executed, and an earlier migration of the same run
\* had committed.
C1_Witness ==
    /\ failure # << >>
    /\ failure[1].at \in InAttempt
    /\ failure[1].stmts > 0
    /\ applied # << >>
    /\ ledger[failure[1].n] = 0

\* The transactions committed so far in this run are those of pending
\* migrations, each once, in strictly ascending serial-number order.
AppliedInOrder ==
    /\ Range(applied) \subseteq (Serials \ ledger0)
    /\ \A i, j \in 1..Len(applied) : i < j => applied[i] < applied[j]

\* C2: for any starting ledger, a run of run_migrations in which no call
\* fails for an outside reason applies exactly the migrations missing from
\* the ledger, each once and in ascending order, and ends with all four
\* serial numbers in the ledger.
C2_FaultFreeRunAppliesAllPending ==
    /\ AppliedInOrder
    /\ (pc \in Stopped /\ ~faulted) =>
          /\ pc = "done"
          /\ Range(applied) = Serials \ ledger0
          /\ InLedger = Serials

\* C3: in a run that follows a run that returned Ok, the ledger, the schema
\* and the tag table stay what the first run left, no transaction commits,
\* rebuild_tags is not entered, and the version returned is the same.
C3_SecondRunChangesNothing ==
    prev.ok =>
        /\ ledger = prev.ledger
        /\ schema = prev.schema
        /\ tag = prev.tag
        /\ applied = << >>
        /\ backfills = 0
        /\ (pc = "done" => version = prev.version)

\* C3 witness: a second run returned Ok after a first one that did.
C3_Witness == prev.ok /\ pc = "done" /\ Len(examined) = Cardinality(Serials)

\* C4: when the run stops inside a migration's transaction (a statement, the
\* ledger insert or the commit failed), the ledger does not hold that serial
\* number, none of the migration's schema objects is committed, and ledger
\* and schema are what they were when the transaction began.
C4_FailedAttemptLeavesNoTrace ==
    (failure # << >> /\ failure[1].at \in InAttempt) =>
        /\ ledger[failure[1].n] = 0
        /\ ObjectsOf(failure[1].n) \cap schema = {}
        /\ ledger = before[1].ledger
        /\ schema = before[1].schema

\* C4 witness: the second statement of a migration failed and the Err was
\* unwrapped.
C4_Witness ==
    /\ failure # << >>
    /\ pc = "panicked"
    /\ failure[1].at = "run"
    /\ failure[1].stmts = 1

\* C5: whenever run_migrations returns Ok with migration 2 in the ledger, the
\* tag table has been rebuilt: it holds the rows of the new representation
\* for the events stored.
C5_SuccessImpliesTagsRebuilt ==
    (pc = "done" /\ ledger[M002] > 0 /\ RebuiltTags(event, schema) # NULL) =>
        Some(tag) = RebuiltTags(event, schema)

\* C6: after a backfill has committed, the tag table holds no two rows with
\* the same event_id, name, value and value_hex.
C6_NoDuplicateTagRows ==
    rebuilt =>
        \A i, j \in 1..Len(tag) : i < j => tag[i] # tag[j]

\* C7: once a migration attempt or the backfill has failed, the run is over:
\* it returns no version, and no migration with a higher serial number (nor
\* the failed one) is committed in that run.
C7_FailureIsFatal ==
    failure # << >> =>
        /\ pc \in Failed
        /\ version = 0
        /\ \A i \in 1..Len(applied) :
               /\ applied[i] <= failure[1].n
               /\ (failure[1].at \in InAttempt) => applied[i] < failure[1].n

\* C7 witness: the commit of migration 2 failed, with 3 and 4 still pending.
C7_Witness ==
    /\ failure # << >>
    /\ failure[1].at = "commit"
    /\ failure[1].n = M002
    /\ ledger[M003] = 0 /\ ledger[M004] = 0

\* C8: from the moment rebuild_tags is entered, the committed tag table is
\* what it was before, until update_tx commits; from then on it is the
\* complete set of rows of the stored events.  In particular a failed
\* backfill leaves the table as it was.
C8_BackfillAllOrNothing ==
    backfills > 0 =>
        IF rebuilt
        THEN Some(tag) = RebuiltTags(event, backfillAt[1].schema)
        ELSE tag = preTag

\* C8 witness: parsing an event failed after rows of an earlier event had
\* been inserted on update_tx, and the table had rows before.
C8_Witness ==
    /\ failure # << >>
    /\ pc = "errored"
    /\ failure[1].at = "rt_fetch"
    /\ failure[1].rows > 0
    /\ preTag # << >>

\* C9: when run_migrations has returned Ok, the ledger table exists and the
\* version returned is the largest serial number in the ledger, which is the
\* largest serial number of the registry; in any other state no version has
\* been returned.
C9_SuccessMeansLatestVersion ==
    /\ pc = "done" =>
          /\ migrationsTable
          /\ version = Max(InLedger)
          /\ version = Max(Serials)
    /\ pc # "done" => version = 0

\* C9 witness: a run that started on a database without the ledger table
\* returned Ok.
C9_Witness == pc = "done" /\ Len(applied) = Cardinality(Serials)

\* C10: rebuild_tags is entered at most once per run, only when migration 2
\* was pending at the start and its run_migration returned Upgraded, only
\* after migration 2's transaction has committed, and before the ledger is
\* queried for migration 3.
C10_BackfillOnceAfterM002 ==
    /\ backfills <= 1
    /\ (M002 \in ledger0) => backfills = 0
    /\ backfills = 1 =>
          /\ m002_result = "Upgraded"
          /\ backfillAt[1].applied # << >>
          /\ Last(backfillAt[1].applied) = M002
          /\ M002 \in backfillAt[1].ledger
          /\ ObjectsOf(M002) \subseteq backfillAt[1].schema
          /\ M003 \notin Range(backfillAt[1].examined)
    /\ (M003 \in Range(examined) /\ M002 \in Range(applied)) => backfills = 1

\* C10 witness: the backfill ran and the run went on to migration 3.
C10_Witness == backfills = 1 /\ M003 \in Range(examined)

\* The run of the upgrader now running stopped inside the transaction of a
\* migration that the ledger holds, with no outside fault: it lost the race
\* for that migration to the other upgrader.
LostRace ==
    /\ failure # << >>
    /\ ~faulted
    /\ failure[1].at \in InAttempt
    /\ ledger[failure[1].n] > 0

\* C11: with two upgraders racing on the same pending migration, a
\* serial number is in the ledger at most once, and the upgrader that loses
\* stops at its INSERT into the ledger, which is rejected, with its
\* statements executed and rolled back.
C11_SecondInsertRejected ==
    /\ \A n \in Serials : ledger[n] <= 1
    /\ LostRace =>
          /\ failure[1].at = "insert"
          /\ failure[1].stmts = Len(Sql(failure[1].n))

\* C11, with the point of failure the code has: with two upgraders racing
\* on the same pending migration, a
\* serial number is in the ledger at most once; the upgrader that loses
\* stops at the first statement of the migration, which finds its object
\* committed by the winner, before any INSERT into the ledger (which no
\* constraint would reject); its transaction rolls back and the committed
\* ledger and schema hold the winner's migration once, in full.
C11_LoserFailsAtFirstStatement ==
    /\ \A n \in Serials : ledger[n] <= 1
    /\ LostRace =>
          /\ failure[1].at = "run"
          /\ failure[1].stmts = 0
          /\ ~failure[1].inserted
          /\ ledger[failure[1].n] = 1
          /\ ObjectsOf(failure[1].n) \subseteq schema

\* C11 witness: both upgraders found migration 1 pending; one committed it
\* and the other panicked in its transaction.
C11_Witness ==
    /\ LostRace
    /\ failure[1].n = M001
    /\ M001 \in Range(examined)
    /\ other.applied # << >> /\ other.applied[1] = M001
    /\ ledger[M001] = 1

\* The retained tags of the events ev[i..], in the order the scan meets them,
\* each with the id of its event.
RECURSIVE ScannedFrom(_, _)
ScannedFrom(ev, i) ==
    IF i > Len(ev) THEN << >>
    ELSE (IF ev[i].kind = "json"
          THEN [k \in 1..Len(Retained(ev[i].tags)) |->
                   [id |-> i, t |-> Retained(ev[i].tags)[k]]]
          ELSE << >>) \o ScannedFrom(ev, i + 1)

\* The rows the backfill of this run has written: on update_tx while the
\* scan is under way, in the committed table once update_tx has committed.
Written ==
    IF pc \in { "rt_fetch", "rt_tag", "rt_commit" } THEN updTag
    ELSE IF rebuilt THEN tag
    ELSE << >>

LowerHexChars ==
    { "0", "1", "2", "3", "4", "5", "6", "7", "8", "9",
      "a", "b", "c", "d", "e", "f" }

\* C12: the i-th row the backfill writes is the row of the i-th retained tag:
\* value_hex holds the hex-decoding of the tag's second element and value is
\* NULL iff that element has even length and all its characters are in
\* 0-9a-f; otherwise value holds its bytes and value_hex is NULL.  Exactly
\* one of the two columns is populated.
C12_LosslessnessTest ==
    LET S == ScannedFrom(event, 1)
    IN  /\ Len(Written) <= Len(S)
        /\ \A i \in 1..Len(Written) :
              LET v == S[i].t[2]
                  row == Written[i]
              IN  /\ row.event_id = S[i].id
                  /\ row.name = S[i].t[1]
                  /\ IF /\ Len(v) % 2 = 0
                        /\ \A k \in 1..Len(v) : v[k] \in LowerHexChars
                     THEN /\ row.value_hex = Some(hex_decode(v))
                          /\ row.value = NULL
                     ELSE /\ row.value = Some(as_bytes(v))
                          /\ row.value_hex = NULL
                  /\ (row.value = NULL) # (row.value_hex = NULL)

\* C12 witness: a committed backfill wrote a value_hex row for one tag and a
\* value row for a tag of odd length made of hex digits only.
C12_Witness ==
    /\ rebuilt
    /\ Len(tag) = 2
    /\ tag[1].value_hex # NULL
    /\ tag[2].value # NULL
    /\ Len(event[1].tags[2][2]) = 1
    /\ is_lower_hex(event[1].tags[2][2])

\* hex::encode: two lowercase digits per byte.
hex_encode(bytes) ==
    [ k \in 1..(2 * Len(bytes)) |->
        IF k % 2 = 1
        THEN HexDigits[(bytes[(k + 1) \div 2] \div 16) + 1]
        ELSE HexDigits[(bytes[k \div 2] % 16) + 1] ]

\* String::from_utf8 on ASCII bytes: one character per byte.
from_utf8(bytes) ==
    [ k \in 1..Len(bytes) |-> CHOOSE c \in DOMAIN Ascii : Ascii[c] = bytes[k] ]

\* The string a stored row stands for.
Original(row) ==
    IF row.value_hex # NULL THEN hex_encode(row.value_hex[1])
    ELSE from_utf8(row.value[1])

\* C13: the i-th row the backfill writes gives back the second element of
\* the i-th retained tag: by hex-encoding value_hex in lowercase when that
\* column is populated, by reading value as a string otherwise; and two
\* retained tags of the same event and name with different values have
\* different rows.
C13_StoredValueReversible ==
    LET S == ScannedFrom(event, 1)
    IN  /\ \A i \in 1..Len(Written) : Original(Written[i]) = S[i].t[2]
        /\ \A i, j \in 1..Len(Written) :
              ( /\ S[i].id = S[j].id
                /\ S[i].t[1] = S[j].t[1]
                /\ S[i].t[2] # S[j].t[2] ) => Written[i] # Written[j]

\* C13 witness: a committed backfill stored two values of the same event and
\* name that differ in case only, one in value_hex and one in value.
C13_Witness ==
    /\ rebuilt
    /\ Len(tag) = 2
    /\ event[1].tags[1][2] = << "a", "a" >>
    /\ event[1].tags[2][2] = << "A", "A" >>
    /\ tag[1].value_hex = Some(<< 170 >>)
    /\ tag[2].value = Some(<< 65, 65 >>)

\* The tags of the events ev[i..] that have at least two elements and a name
\* of one character, in scan order, each with the id of its event.
RECURSIVE WellFormedFrom(_, _)
WellFormedFrom(ev, i) ==
    IF i > Len(ev) THEN << >>
    ELSE LET good == SelectSeq(ev[i].tags,
                               LAMBDA t : Len(t) >= 2 /\ Len(t[1]) = 1)
         IN  [k \in 1..Len(good) |-> [id |-> i, t |-> good[k]]]
             \o WellFormedFrom(ev, i + 1)

\* C14: the rows the backfill writes are, in order, those of the tags with
\* at least two elements and a one-character name: a tag with fewer elements
\* or another name gets no row, the tags around it get theirs (all of them
\* once update_tx has committed), and the loop over the tags stops short
\* only for an outside fault.
C14_MalformedTagDiscarded ==
    LET G == WellFormedFrom(event, 1)
    IN  /\ Len(Written) <= Len(G)
        /\ \A i \in 1..Len(Written) :
              /\ Written[i].event_id = G[i].id
              /\ Written[i].name = G[i].t[1]
        /\ rebuilt => Len(tag) = Len(G)
        /\ (failure # << >> /\ failure[1].at = "rt_tag") => faulted

\* C14 witness: a committed backfill scanned an event with a one-element
\* tag, an empty tag, a tag named "ee" and a tag with an empty name, and
\* wrote the rows of its three other tags.
C14_Witness ==
    /\ rebuilt
    /\ \E i \in 1..Len(event) :
          /\ event[i] = Mixed
          /\ Cardinality({ k \in 1..Len(tag) : tag[k].event_id = i }) = 3

\* C15: inside update_tx the DELETE comes before any INSERT: until it has
\* run update_tx holds the rows that were committed, right after it none,
\* and from then on only rows derived from retained tags of the events the
\* scan has read.  Once update_tx has committed, the tag table is the rows
\* of the retained tags of all events, one row per tag, and a row from
\* before the backfill is in it only as the row of such a tag.
C15_FullReplacement ==
    LET S == ScannedFrom(event, 1)
        Derived == { RowFor(S[i].id, S[i].t) : i \in 1..Len(S) }
    IN  /\ pc = "rt_delete" => updTag = preTag
        /\ pc = "rt_count" => updTag = << >>
        /\ pc \in { "rt_fetch", "rt_tag", "rt_commit" } =>
              /\ Range(updTag) \subseteq Derived
              /\ \A i \in 1..Len(updTag) : updTag[i].event_id <= event_id
        /\ rebuilt =>
              /\ Len(tag) = Len(S)
              /\ \A i \in 1..Len(S) : tag[i] = RowFor(S[i].id, S[i].t)
              /\ Range(preTag) \cap Range(tag) \subseteq Derived

\* C15 witness: a committed backfill replaced every row the table held.
C15_Witness ==
    /\ rebuilt
    /\ preTag # << >>
    /\ tag # << >>
    /\ Range(preTag) \cap Range(tag) = {}

\* The positions inside rebuild_tags, and those whose step is a call on the
\* read transaction tx.
InRebuild ==
    { "rt_begin", "rt_begin_update", "rt_delete", "rt_count", "rt_fetch",
      "rt_tag", "rt_commit" }
OnReadTx == { "rt_count", "rt_fetch" }

\* C16: no step of rebuild_tags, whether it succeeds, fails or is cut by a
\* crash, changes the event table, the ledger, the ledger table or the
\* schema; the committed tag table changes at update_tx.commit() only; and
\* the steps on the read transaction change no committed table and add
\* nothing to update_tx (tx is dropped, there is no commit of it).
C16_BackfillWritesOnlyTags ==
    [][ (pc \in InRebuild /\ who' = who) =>
          /\ event' = event
          /\ ledger' = ledger
          /\ migrationsTable' = migrationsTable
          /\ schema' = schema
          /\ (tag' # tag) => (pc = "rt_commit" /\ rebuilt')
          /\ (pc \in OnReadTx) =>
                (tag' = tag /\ (updTag' = updTag \/ pc' \in Failed)) ]_vars

\* C16 witness: a backfill has committed and the tag table is not what it
\* was, with events stored.
C16_Witness ==
    /\ rebuilt
    /\ tag # preTag
    /\ event # << >>
    /\ pc = "check" /\ cur = M003 /\ Len(examined) = 2

\* C17: the tag table a committed backfill leaves satisfies UNIQUE
\* (event_id, "name", value), and a run that starts on a version 1 database
\* whose events all parse, with no outside fault, ends with Ok after
\* committing migrations 2, 3 and 4.
C17_BackfillSatisfiesUnique ==
    /\ rebuilt => UniqueOk(tag)
    /\ ( /\ ledger0 = {M001}
         /\ \A i \in 1..Len(event) : event[i].kind = "json"
         /\ pc \in Stopped
         /\ ~faulted ) =>
            /\ pc = "done"
            /\ applied = << M002, M003, M004 >>

\* C18: with one upgrader, whatever runs, failures, crashes and restarts
\* there have been, the serial numbers in the ledger are 1..k for some k
\* from 0 to 4: every serial number below a recorded one is recorded, and
\* each is recorded once.
C18_LedgerIsPrefix ==
    /\ \E k \in 0..M004 : InLedger = 1..k
    /\ \A n \in InLedger : \A m \in Serials : m < n => ledger[m] = 1

\* C18 witness: a run that did not return Ok left 1 in the ledger, and the
\* run after it recorded 2 and 3 and then failed.
C18_Witness ==
    /\ ~prev.ok
    /\ prev.ledger[M001] = 1 /\ prev.ledger[M002] = 0
    /\ applied = << M002, M003 >>
    /\ pc \in Failed
    /\ InLedger = {M001, M002, M003}

\* C19: in the RelayInfo built from any configuration, fees is present iff
\* pay-to-relay is enabled; payment_url is present iff it is enabled and a
\* relay URL is configured; the admission (publication) fee list is present
\* iff it is enabled and admission_cost (cost_per_event) is above zero, and
\* then holds that amount; limitation.payment_required is Some(enabled).
C19_PaymentDataOnlyWhenEnabled ==
    relay_info # << >> =>
        LET r == relay_info[1]
        IN  /\ (r.fees # NULL) <=> pay.enabled
            /\ (r.payment_url # NULL) <=>
                   (pay.enabled /\ info.relay_url # NULL)
            /\ (r.fees # NULL /\ r.fees[1].admission # NULL) <=>
                   (pay.enabled /\ pay.admission_cost > 0)
            /\ (r.fees # NULL /\ r.fees[1].publication # NULL) <=>
                   (pay.enabled /\ pay.cost_per_event > 0)
            /\ (r.fees # NULL /\ r.fees[1].admission # NULL) =>
                   r.fees[1].admission[1][1].amount = pay.admission_cost
            /\ (r.fees # NULL /\ r.fees[1].publication # NULL) =>
                   r.fees[1].publication[1][1].amount = pay.cost_per_event
            /\ r.limitation # NULL
            /\ r.limitation[1].payment_required = Some(pay.enabled)

\* C19 witness: pay-to-relay enabled with an admission cost, no cost per
\* event and a wss URL: fees with an admission list only, and the https
\* join URL.
C19_Witness ==
    /\ relay_info # << >>
    /\ pay.enabled /\ pay.admission_cost = MaxCost /\ pay.cost_per_event = 0
    /\ relay_info[1].fees[1].publication = NULL
    /\ relay_info[1].fees[1].admission[1][1].amount = MaxCost
    /\ relay_info[1].payment_url =
           Some(<< "h", "t", "t", "p", "s", ":", "r", "j", "o", "i", "n" >>)

====
